---- MODULE Spec2Model ----
(***************************************************************************)
(* State-machine model of the DrishtiAI component                          *)
(* (src/src/components/DrishtiAI.tsx): the message log, the busy gate, the *)
(* status label, the text input, the pending FileReader loads and the      *)
(* asynchronous runs of simulateAgentFlow, each suspended at one of its    *)
(* five setTimeout awaits.                                                 *)
(*                                                                         *)
(* An optional value (a key that may be absent, a state that may be        *)
(* undefined) is a sequence of length 0 or 1: None is absent, Some(v) is   *)
(* present with value v.  A text is a sequence of tokens; the token " " is *)
(* a whitespace character.                                                 *)
(***************************************************************************)
EXTENDS Integers, Sequences, FiniteSets, TLC

VARIABLES messages, inputValue, isProcessing, currentProcessLog,
          runs, readers, now

vars == <<messages, inputValue, isProcessing, currentProcessLog,
          runs, readers, now>>

----------------------------------------------------------------------------
(* Bounds of the model. *)

\* total number of simulateAgentFlow runs started in one behaviour
MaxRuns == 2
\* milliseconds that may pass between two consecutive clock reads
MaxSkew == 1
\* length of a typed text
MaxLen == 1
\* FileReader loads pending at once
MaxReads == 1

----------------------------------------------------------------------------
(* Values. *)

None == <<>>
Some(v) == <<v>>

Files == {"label.png"}

\* FileReader.readAsDataURL: the base64 data URL of the file
DataURL(f) == "data:image/png;base64," \o f

\* reader.result when the load ended in an error
Null == "null"

\* what reader.result can be when onloadend fires
ReadResults(f) == {DataURL(f), Null}

Chars == {" ", "a"}

RECURSIVE TextsOfLen(_)
TextsOfLen(n) ==
    IF n = 0 THEN {<<>>}
    ELSE {Append(t, c) : t \in TextsOfLen(n - 1), c \in Chars}

\* what the user can have typed into the text input
TypedTexts == UNION {TextsOfLen(n) : n \in 0..MaxLen}

\* String.prototype.trim
RECURSIVE trim(_)
trim(s) ==
    IF s = <<>> THEN s
    ELSE IF Head(s) = " " THEN trim(Tail(s))
    ELSE IF s[Len(s)] = " " THEN trim(SubSeq(s, 1, Len(s) - 1))
    ELSE s

AnalyzeLabelQuery == <<"Analyze this label">>
QuickStartQuery == <<"Is Ashwagandha safe for hypothyroidism?">>
ScanningContent == <<"Scanning uploaded label...">>

ScanLog == "SCANNING IMAGE PIXELS..."
ExtractLog == "EXTRACTING ENTITIES VIA GEMINI 2.0..."
ReasonLog == "CROSS-REFERENCING HEALTH PROFILE..."
SearchLog == "VERIFYING ANAPHYLAXIS PROTOCOLS..."
VerdictLog == "GENERATING SAFETY VERDICT..."

ScanDelay == 1000
ExtractDelay == 800
ReasonDelay == 1000
SearchDelay == 1200
VerdictDelay == 800

ProductJson ==
    [product_name |-> "Crunchy Nut & Honey Bar",
     company_name |-> "Nature's Fuel",
     IngredientList |-> <<"Whole Grain Oats", "Roasted Peanuts", "Almond Butter",
                          "High Fructose Corn Syrup", "Soy Lecithin", "Salt">>,
     NutritionFacts |-> [Calories |-> "240", TotalFat |-> "12g", AddedSugars |-> "14g"],
     MarketingClaims |-> <<"Natural Energy", "Heart Healthy">>]

PlanText == "DETECTED ALLERGEN: 'Peanuts'"
SearchQueries == <<"peanut allergy severity thresholds",
                   "Nature's Fuel manufacturing cross-contamination">>
ReasoningText == "CRITICAL ALERT: This product contains Peanuts."
NextSuggestions == << <<"Find peanut-free alternative">>,
                      <<"Report incorrect labeling">>,
                      <<"View emergency protocol">> >>

Verdicts == {"SAFE", "CAUTION", "AVOID"}

\* the keys of AgentResponse that the component reads or writes
Fields == {"user_query", "image_data", "product_json", "plan", "search_needed",
           "search_queries", "final_verdict", "reasoning", "next_suggestion"}

\* the keys the stages write
ResultFields == Fields \ {"user_query", "image_data"}

\* an object with none of the keys
EmptyResponse == [f \in Fields |-> None]

Max(a, b) == IF a >= b THEN a ELSE b

\* Number.prototype.toString: the decimal digits of n, most significant first
RECURSIVE toString(_)
toString(n) ==
    IF n < 10 THEN <<n>> ELSE Append(toString(n \div 10), n % 10)

----------------------------------------------------------------------------
(* State. *)

\* the state after the first render; now is the reading of Date.now(), counted
\* from the mount of the component
Init ==
    /\ messages = <<>>
    /\ inputValue = <<>>
    /\ isProcessing = FALSE
    /\ currentProcessLog = ""
    /\ runs = <<>>
    /\ readers = <<>>
    /\ now = 0

\* the turn is an agent turn of the log
IsAgent(m) == m.type = "agent"

\* the turn is in flight
InFlight(m) == m.isStreaming = Some(TRUE)

\* the key f of the turn's agentResponse is set
IsSet(m, f) == m.agentResponse # None /\ m.agentResponse[1][f] # None

\* the runs suspended at a setTimeout await
Pending == {r \in DOMAIN runs : runs[r].pc # "done"}

----------------------------------------------------------------------------
(* simulateAgentFlow, up to its first await. *)

\* the user message of a run
UserMessage(userMsgId, query) ==
    [id |-> userMsgId,
     type |-> "user",
     content |-> IF query # <<>> THEN query ELSE ScanningContent,
     agentResponse |-> None,
     isStreaming |-> None]

\* the agent placeholder of a run
AgentMessage(agentMsgId, query, imageData) ==
    [id |-> agentMsgId,
     type |-> "agent",
     content |-> <<>>,
     agentResponse |-> Some([EmptyResponse EXCEPT !.user_query = Some(query),
                                                  !.image_data = Some(imageData)]),
     isStreaming |-> Some(TRUE)]

\* AppendTurns with the placeholder put in front of the user message
AppendTurnsAgentFirst(msgs, userMsg, agentMsg) == Append(Append(msgs, agentMsg), userMsg)

\* the two setMessages appends of a run
AppendTurns(msgs, userMsg, agentMsg) == Append(Append(msgs, userMsg), agentMsg)

\* the call simulateAgentFlow(query, imageData) with the clock reading t1 at the
\* first Date.now() and t2 at the second; it runs to the first await
simulateAgentFlow(query, imageData, t1, t2) ==
    /\ Len(runs) < MaxRuns
    /\ isProcessing' = TRUE
    /\ messages' = AppendTurns(messages,
                               UserMessage(toString(t1), query),
                               AgentMessage(toString(t2 + 1), query, imageData))
    /\ currentProcessLog' = ScanLog
    /\ runs' = Append(runs, [query |-> query,
                             imageData |-> imageData,
                             agentMsgId |-> toString(t2 + 1),
                             pc |-> "scan",
                             deadline |-> t2 + ScanDelay])
    /\ now' = t2

\* a call of simulateAgentFlow at some time not before now
StartRun(query, imageData) ==
    \E d1 \in 0..MaxSkew, d2 \in 0..MaxSkew :
        simulateAgentFlow(query, imageData, now + d1, now + d1 + d2)

----------------------------------------------------------------------------
(* The stages of simulateAgentFlow, one per await. *)

\* { ...m.agentResponse! }: the keys of the response, none when it is undefined
Spread(resp) == IF resp = None THEN EmptyResponse ELSE resp[1]

\* Merge without the spread of the existing response: { ...updates }
MergeUpdatesOnly(existing, updates) ==
    [f \in Fields |-> IF f \in DOMAIN updates THEN Some(updates[f]) ELSE None]

\* { ...existing, ...updates }
Merge(existing, updates) ==
    [f \in Fields |-> IF f \in DOMAIN updates THEN Some(updates[f]) ELSE existing[f]]

updateAgentMsg(msgs, agentMsgId, updates) ==
    [i \in DOMAIN msgs |->
        IF msgs[i].id = agentMsgId
        THEN [msgs[i] EXCEPT !.agentResponse = Some(Merge(Spread(@), updates))]
        ELSE msgs[i]]

\* the final setMessages of a run
StopStreaming(msgs, agentMsgId) ==
    [i \in DOMAIN msgs |->
        IF msgs[i].id = agentMsgId
        THEN [msgs[i] EXCEPT !.isStreaming = Some(FALSE)]
        ELSE msgs[i]]

\* StageUpdates with the updates of the extract and the reason stage exchanged
StageUpdatesReasonFirst(pc) ==
    CASE pc = "extract" -> [plan |-> PlanText]
      [] pc = "reason"  -> [product_json |-> ProductJson]
      [] pc = "search"  -> [search_needed |-> TRUE, search_queries |-> SearchQueries]
      [] pc = "verdict" -> [final_verdict |-> "AVOID",
                            reasoning |-> ReasoningText,
                            next_suggestion |-> NextSuggestions]

\* the updateAgentMsg argument of the code that follows the await pc
StageUpdates(pc) ==
    CASE pc = "extract" -> [product_json |-> ProductJson]
      [] pc = "reason"  -> [plan |-> PlanText]
      [] pc = "search"  -> [search_needed |-> TRUE, search_queries |-> SearchQueries]
      [] pc = "verdict" -> [final_verdict |-> "AVOID",
                            reasoning |-> ReasoningText,
                            next_suggestion |-> NextSuggestions]

\* the await that follows the await pc
NextPc(pc) ==
    CASE pc = "scan"    -> "extract"
      [] pc = "extract" -> "reason"
      [] pc = "reason"  -> "search"
      [] pc = "search"  -> "verdict"
      [] pc = "verdict" -> "done"

\* the status label set before the await pc
StageLog(pc) ==
    CASE pc = "scan"    -> ScanLog
      [] pc = "extract" -> ExtractLog
      [] pc = "reason"  -> ReasonLog
      [] pc = "search"  -> SearchLog
      [] pc = "verdict" -> VerdictLog

\* the setTimeout delay of the await pc
StageDelay(pc) ==
    CASE pc = "scan"    -> ScanDelay
      [] pc = "extract" -> ExtractDelay
      [] pc = "reason"  -> ReasonDelay
      [] pc = "search"  -> SearchDelay
      [] pc = "verdict" -> VerdictDelay

\* StageMessages with isStreaming cleared one stage early, before the verdict
StageMessagesEarlyStop(msgs, agentMsgId, pc) ==
    CASE pc = "scan"    -> msgs
      [] pc = "search"  -> StopStreaming(updateAgentMsg(msgs, agentMsgId, StageUpdates(pc)),
                                         agentMsgId)
      [] OTHER          -> updateAgentMsg(msgs, agentMsgId, StageUpdates(pc))

\* StageMessages without the final setMessages that clears isStreaming
StageMessagesNoStop(msgs, agentMsgId, pc) ==
    CASE pc = "scan"    -> msgs
      [] OTHER          -> updateAgentMsg(msgs, agentMsgId, StageUpdates(pc))

\* the messages after the code between the await pc and the next await
StageMessages(msgs, agentMsgId, pc) ==
    CASE pc = "scan"    -> msgs
      [] pc = "verdict" -> StopStreaming(updateAgentMsg(msgs, agentMsgId, StageUpdates(pc)),
                                         agentMsgId)
      [] OTHER          -> updateAgentMsg(msgs, agentMsgId, StageUpdates(pc))

\* a timer fires no earlier than its deadline
FireTime(deadline) == Max(now, deadline)

\* the timer of run r fires and the run continues to its next await, or to its end
StageTimer(r) ==
    /\ r \in Pending
    /\ \A o \in Pending : runs[r].deadline <= runs[o].deadline
    /\ LET run == runs[r]
           t == FireTime(run.deadline)
           next == NextPc(run.pc)
       IN /\ now' = t
          /\ messages' = StageMessages(messages, run.agentMsgId, run.pc)
          /\ IF next = "done"
             THEN /\ isProcessing' = FALSE
                  /\ currentProcessLog' = ""
                  /\ runs' = [runs EXCEPT ![r].pc = next]
             ELSE /\ isProcessing' = isProcessing
                  /\ currentProcessLog' = StageLog(next)
                  /\ runs' = [runs EXCEPT ![r].pc = next,
                                          ![r].deadline = t + StageDelay(next)]
    /\ UNCHANGED <<inputValue, readers>>

----------------------------------------------------------------------------
(* The event handlers. *)

\* onChange of the text input, which is disabled while isProcessing
SetInputValue(t) ==
    /\ ~isProcessing
    /\ inputValue' = t
    /\ UNCHANGED <<messages, isProcessing, currentProcessLog, runs, readers, now>>

HandleSubmit ==
    IF trim(inputValue) # <<>> /\ ~isProcessing
    THEN /\ StartRun(inputValue, Null)
         /\ inputValue' = <<>>
         /\ UNCHANGED readers
    ELSE UNCHANGED vars

\* onClick of the k-th next_suggestion button of the agent turn i
SuggestionClick(i, k) ==
    /\ i \in DOMAIN messages
    /\ IsAgent(messages[i])
    /\ IsSet(messages[i], "next_suggestion")
    /\ k \in DOMAIN messages[i].agentResponse[1].next_suggestion[1]
    /\ IF ~isProcessing
       THEN /\ StartRun(messages[i].agentResponse[1].next_suggestion[1][k], Null)
            /\ UNCHANGED <<inputValue, readers>>
       ELSE UNCHANGED vars

\* onClick of the "Research Safety" button, rendered in the empty state only
QuickStartClick ==
    /\ Len(messages) = 0
    /\ ~isProcessing
    /\ StartRun(QuickStartQuery, Null)
    /\ UNCHANGED <<inputValue, readers>>

\* onChange of the file input after a click on an upload button (the one of the
\* command bar is disabled while isProcessing); file is None when none was chosen
handleFileSelect(file) ==
    /\ ~isProcessing
    /\ IF file # None
       THEN /\ Len(readers) < MaxReads
            /\ readers' = Append(readers, file[1])
       ELSE readers' = readers
    /\ UNCHANGED <<messages, inputValue, isProcessing, currentProcessLog, runs, now>>

\* reader.onloadend of the j-th pending FileReader
ReaderLoadEnd(j) ==
    /\ j \in DOMAIN readers
    /\ \E base64String \in ReadResults(readers[j]) :
           StartRun(AnalyzeLabelQuery, base64String)
    /\ readers' = SubSeq(readers, 1, j - 1) \o SubSeq(readers, j + 1, Len(readers))
    /\ UNCHANGED inputValue

----------------------------------------------------------------------------

Next ==
    \/ \E t \in TypedTexts : SetInputValue(t)
    \/ HandleSubmit
    \/ \E i \in 1..(2 * MaxRuns), k \in 1..3 : SuggestionClick(i, k)
    \/ QuickStartClick
    \/ \E file \in {None} \cup {Some(f) : f \in Files} : handleFileSelect(file)
    \/ \E j \in 1..MaxReads : ReaderLoadEnd(j)
    \/ \E r \in 1..MaxRuns : StageTimer(r)

Spec == Init /\ [][Next]_vars

\* every timer that was set fires
Fairness == WF_vars(\E r \in 1..MaxRuns : StageTimer(r))

LiveSpec == Init /\ [][Next]_vars /\ Fairness

----------------------------------------------------------------------------
(* Properties. *)

\* the indices of the agent turns of the log
AgentTurns == {i \in DOMAIN messages : IsAgent(messages[i])}

\* the indices of the turns in flight
InFlightTurns == {i \in DOMAIN messages : InFlight(messages[i])}

\* the value of key f of turn i, None when the key or the response is absent
FieldOf(m, f) == Spread(m.agentResponse)[f]

\* C1: at most one turn of the log is in flight, whichever entry point started
\* the runs and however the events interleave with the stage timers.
AtMostOneInFlight == Cardinality(InFlightTurns) <= 1

\* a step in which no run advances past an await
NoStageStep == SubSeq(runs', 1, Len(runs)) = runs

\* C2: an event that is no stage of a run and happens while a turn is in flight
\* leaves the log as it is: the same length, the same turns.
BusySubmitRejected ==
    [][(InFlightTurns # {} /\ NoStageStep) => messages' = messages]_vars

\* C3: in every agent turn the fields appear in stage order: plan only after
\* product_json, search_needed only after plan, final_verdict only after
\* search_needed; search_needed with search_queries, and final_verdict with
\* reasoning and next_suggestion.
StageOrder ==
    \A i \in AgentTurns :
        LET m == messages[i] IN
        /\ IsSet(m, "plan") => IsSet(m, "product_json")
        /\ IsSet(m, "search_needed") => IsSet(m, "plan")
        /\ IsSet(m, "final_verdict") => IsSet(m, "search_needed")
        /\ IsSet(m, "search_needed") <=> IsSet(m, "search_queries")
        /\ IsSet(m, "final_verdict") <=> IsSet(m, "reasoning")
        /\ IsSet(m, "final_verdict") <=> IsSet(m, "next_suggestion")

\* two runs are suspended, the turn of one is past its reason stage and the
\* turn of the other is not
StageOrderWitness ==
    /\ Cardinality(Pending) = 2
    /\ \E i, j \in AgentTurns :
        /\ IsSet(messages[i], "plan") /\ ~IsSet(messages[i], "search_needed")
        /\ ~IsSet(messages[j], "product_json")

\* the runs that advance past an await in this step
Advancing == {r \in DOMAIN runs : runs'[r].pc # runs[r].pc}

\* C4: a result field of an agent turn, once set, keeps its value, and no stage
\* of any run writes a field that is already set on the turn it updates.
FieldsWrittenOnce ==
    [][/\ \A i \in AgentTurns : \A f \in ResultFields :
            IsSet(messages[i], f) => FieldOf(messages'[i], f) = FieldOf(messages[i], f)
       /\ \A r \in Advancing : \A i \in AgentTurns :
            (runs[r].pc # "scan" /\ messages[i].id = runs[r].agentMsgId)
                => \A f \in DOMAIN StageUpdates(runs[r].pc) : ~IsSet(messages[i], f)]_vars

\* an agent turn that is no longer in flight has every result field
CompleteWhenStopped ==
    \A i \in AgentTurns :
        /\ messages[i].isStreaming \in {Some(TRUE), Some(FALSE)}
        /\ messages[i].isStreaming = Some(FALSE)
               => \A f \in ResultFields : IsSet(messages[i], f)

\* an agent turn that is no longer in flight stays so and keeps its response
FinalWhenStopped ==
    \A i \in AgentTurns :
        messages[i].isStreaming = Some(FALSE)
            => /\ messages'[i].isStreaming = Some(FALSE)
               /\ messages'[i].agentResponse = messages[i].agentResponse

\* C5: isStreaming of an agent turn goes from true to false once and stays
\* false; when it is false every result field of the turn is set, and the
\* response of the turn does not change any more.
StopsOnceAfterVerdict == [](CompleteWhenStopped) /\ [][FinalWhenStopped]_vars

\* an agent turn is no longer in flight while a run that updates it is still
\* suspended past its extract stage
StopsOnceWitness ==
    \E i \in AgentTurns : \E r \in Pending :
        /\ messages[i].isStreaming = Some(FALSE)
        /\ messages[i].id = runs[r].agentMsgId
        /\ runs[r].pc \in {"search", "verdict"}

\* turn i is an agent turn that completed with a verdict
Completed(i) ==
    /\ i \in AgentTurns
    /\ messages[i].isStreaming = Some(FALSE)
    /\ FieldOf(messages[i], "final_verdict") # None
    /\ FieldOf(messages[i], "final_verdict")[1] \in Verdicts

\* the session accepts a submission
Idle == ~isProcessing /\ currentProcessLog = ""

\* C6: when the timers fire, every agent turn in flight completes with a
\* verdict, and a busy session becomes idle again.
EveryRunCompletes ==
    /\ \A i \in 1..(2 * MaxRuns) :
          (i \in DOMAIN messages /\ InFlight(messages[i])) ~> Completed(i)
    /\ isProcessing ~> Idle

\* a first run completed, the session was idle, and a later submission was
\* accepted and completed too
EveryRunCompletesWitness ==
    /\ Len(messages) = 4
    /\ Completed(2) /\ Completed(4)
    /\ messages[4].id # messages[2].id
    /\ Idle

\* the agent turn of every run carries the query and the image of the call
SeededFromCall ==
    \A r \in DOMAIN runs :
        /\ 2 * r \in AgentTurns
        /\ FieldOf(messages[2 * r], "user_query") = Some(runs[r].query)
        /\ FieldOf(messages[2 * r], "image_data") = Some(runs[r].imageData)

\* no step changes the query or the image of an agent turn
SeedUnchanged ==
    \A i \in AgentTurns :
        /\ FieldOf(messages'[i], "user_query") = FieldOf(messages[i], "user_query")
        /\ FieldOf(messages'[i], "image_data") = FieldOf(messages[i], "image_data")

\* C7: from its creation on, an agent turn has the query and the image payload
\* of the simulateAgentFlow call that created it; no stage of any run changes
\* either.
QueryAndImageKept == [](SeededFromCall) /\ [][SeedUnchanged]_vars

\* a turn created with an image payload completed while the other run, started
\* without an image, shares its id
QueryAndImageKeptWitness ==
    /\ Len(messages) = 4
    /\ messages[2].id = messages[4].id
    /\ FieldOf(messages[2], "image_data") # FieldOf(messages[4], "image_data")
    /\ FieldOf(messages[2], "user_query") # FieldOf(messages[4], "user_query")
    /\ Completed(2) /\ Completed(4)

\* C9: the ids of the turns of the log are pairwise distinct.
UniqueIds ==
    \A i, j \in DOMAIN messages : i # j => messages[i].id # messages[j].id

\* the ids, types and contents of the turns, in log order
Skeleton(msgs) ==
    [i \in DOMAIN msgs |-> <<msgs[i].id, msgs[i].type, msgs[i].content>>]

\* a step that keeps the turns in place, or one that appends the two turns of a
\* new run behind the unchanged log
AppendOnlyStep ==
    \/ /\ Len(runs') = Len(runs)
       /\ Skeleton(messages') = Skeleton(messages)
    \/ /\ Len(runs') = Len(runs) + 1
       /\ Len(messages') = Len(messages) + 2
       /\ SubSeq(messages', 1, Len(messages)) = messages
       /\ messages'[Len(messages) + 1].type = "user"
       /\ messages'[Len(messages) + 1].content # <<>>
       /\ messages'[Len(messages) + 2].type = "agent"
       /\ InFlight(messages'[Len(messages) + 2])

\* C10: the log is append-only and order-stable: a step either keeps the id,
\* type and content of every turn at its position, or it starts a run and
\* appends exactly two turns behind the unchanged log, the user turn and then
\* its agent turn in flight.
AppendOnly == [][AppendOnlyStep]_vars

\* a second run was appended while the first was between its stages, and
\* stages of both ran afterwards
AppendOnlyWitness ==
    /\ Len(messages) = 4
    /\ Cardinality(Pending) = 2
    /\ IsSet(messages[2], "search_needed")
    /\ IsSet(messages[4], "plan")
    /\ messages[2].id # messages[4].id

\* no user turn has an agentResponse
UserTurnsHaveNoResult ==
    \A i \in DOMAIN messages : ~IsAgent(messages[i]) => messages[i].agentResponse = None

\* a stage of run r leaves every turn but the agent turn of r, the turn 2r of
\* the log, as it is
StageChangesOwnTurnOnly ==
    \A r \in Advancing : \A i \in DOMAIN messages :
        i # 2 * r => messages'[i] = messages[i]

\* C11: a stage update of a run changes only the agent turn the run created:
\* no user turn ever has a result, and the result and the isStreaming flag of
\* every other turn are unchanged by the update.
OwnTurnOnly == [](UserTurnsHaveNoResult) /\ [][StageChangesOwnTurnOnly]_vars

\* C12: isProcessing is true exactly when some turn is in flight, and the
\* status label is empty whenever isProcessing is false.
BusyGateAgrees ==
    /\ isProcessing <=> InFlightTurns # {}
    /\ ~isProcessing => currentProcessLog = ""

====
